---- MODULE Spec2Model ----
(***************************************************************************)
(* Model of app.py of the socio-economic dashboard: the memoized           *)
(* get_data(country_code, time_string, indicators_dict) pipeline that      *)
(* turns the frame answered by wbgapi into the (data, error) pair, and the *)
(* display branch the script takes on that pair.                           *)
(*                                                                         *)
(* A frame is modelled as it stands after reset_index (app.py line 82):    *)
(* a list of value-column labels and a list of rows <<c0, c1, vals>>,      *)
(* c0 and c1 being the first two positional columns and vals the value of  *)
(* every value column.  Text that the code parses (the time label) is a    *)
(* sequence of one-character strings.                                      *)
(***************************************************************************)
EXTENDS Integers, Sequences, FiniteSets, TLC

(* ----------------------------- bounds ---------------------------------- *)

\* Largest number of rows of a frame answered by the external source.
MaxRows == 2

(* ------------------------- Python values ------------------------------- *)

\* Python's None, and a Python str; both are records so that they compare.
None == [none |-> TRUE]

Str(s) == [str |-> s]

\* bool(x) of an Optional[str]: None and "" are falsy.
Truthy(x) == x # None /\ x.str # ""

\* The missing-value marker pivot fills absent cells with.
NaN == 0 - 1

(* ------------------------- inputs of the run --------------------------- *)

\* app.py lines 28-37: readable name -> World Bank code (two entries kept).
INDICATORS_DB == [A |-> "a", B |-> "b"]

indicator_names == DOMAIN INDICATORS_DB

\* Country codes in their lexicographic order (the order pivot sorts by).
Entities == <<"IND", "USA">>

EntityRank(e) == CHOOSE i \in 1..Len(Entities) : Entities[i] = e

\* A time label cell that is missing (NaN) in the frame.
Missing == <<"nan">>

YR2000 == <<"Y", "R", "2", "0", "0", "0">>

YR2001 == <<"Y", "R", "2", "0", "0", "1">>

\* Same year as YR2000, written with a leading zero.
YR02000 == <<"Y", "R", "0", "2", "0", "0", "0">>

\* A quarterly label: not an integer once the prefix is removed.
YR2000Q1 == <<"Y", "R", "2", "0", "0", "0", "Q", "1">>

TimeLabels == {YR2000, YR2001, YR02000, YR2000Q1, Missing}

\* Cell values of the value columns.
Values == {5, 10}

\* The value-column label lists a frame can carry: none, the first code, or
\* both codes (more, or fewer, than a request asks for).
ColumnLists == {<<>>, <<"a">>, <<"a", "b">>}

Range(s) == {s[i] : i \in 1..Len(s)}

RowsOver(cols) ==
    {<<e, t, v>> : e \in Range(Entities), t \in TimeLabels, v \in [Range(cols) -> Values]}

\* answer is a frame the external source can return.
IsFrame(answer) ==
    \E cols \in ColumnLists, k \in 0..MaxRows :
        \E rs \in [1..k -> RowsOver(cols)] :
            answer = [tag |-> "frame", columns |-> cols, rows |-> rs]

\* str(e) of the exceptions wb.data.DataFrame can raise.
JSONMessages == {"Expecting value: line 1 column 1 (char 0)"}

OtherMessages == {"", "HTTPSConnectionPool: Max retries exceeded"}

Raises ==
    {[tag |-> "raise", exc |-> "JSONDecodeError", msg |-> m] : m \in JSONMessages}
    \cup {[tag |-> "raise", exc |-> "Exception", msg |-> m] : m \in OtherMessages}

(* --------------------------- text parsing ------------------------------ *)

Digits == {"0", "1", "2", "3", "4", "5", "6", "7", "8", "9"}

DigitVal(c) ==
    CASE c = "0" -> 0 [] c = "1" -> 1 [] c = "2" -> 2 [] c = "3" -> 3 [] c = "4" -> 4
      [] c = "5" -> 5 [] c = "6" -> 6 [] c = "7" -> 7 [] c = "8" -> 8 [] c = "9" -> 9

\* str.replace('YR', ''): every non-overlapping occurrence, left to right.
RECURSIVE str_replace_YR(_)
str_replace_YR(s) ==
    IF s = <<>> THEN <<>>
    ELSE IF Len(s) >= 2 /\ s[1] = "Y" /\ s[2] = "R"
         THEN str_replace_YR(SubSeq(s, 3, Len(s)))
         ELSE <<s[1]>> \o str_replace_YR(Tail(s))

\* int(s) accepts an optional sign followed by at least one digit.
Unsigned(s) == IF s # <<>> /\ s[1] \in {"+", "-"} THEN Tail(s) ELSE s

IsIntLiteral(s) == Unsigned(s) # <<>> /\ \A i \in 1..Len(Unsigned(s)) : Unsigned(s)[i] \in Digits

RECURSIVE DigitsValue(_)
DigitsValue(s) ==
    IF s = <<>> THEN 0 ELSE 10 * DigitsValue(SubSeq(s, 1, Len(s) - 1)) + DigitVal(s[Len(s)])

int(s) == IF s[1] = "-" THEN 0 - DigitsValue(Unsigned(s)) ELSE DigitsValue(Unsigned(s))

RECURSIVE Join(_)
Join(s) == IF s = <<>> THEN "" ELSE s[1] \o Join(Tail(s))

\* A time label cell parses when it is a string whose remainder is an int.
Parses(t) == t # Missing /\ IsIntLiteral(str_replace_YR(t))

\* The ValueError raised by .astype(int) on a cell that does not parse.
astype_int_error(t) ==
    IF t = Missing THEN "cannot convert float NaN to integer"
    ELSE "invalid literal for int() with base 10: '" \o Join(str_replace_YR(t)) \o "'"

(* ----------------------------- the pipeline ---------------------------- *)

\* df_wide.melt(id_vars=['Country','TimeStr']): one record per value column
\* and row, column by column.
melt(frame) ==
    LET n == Len(frame.rows)
        m == Len(frame.columns)
    IN  [k \in 1..(n * m) |->
            LET c == frame.columns[((k - 1) \div n) + 1]
                r == frame.rows[((k - 1) % n) + 1]
            IN  [Country |-> r[1], TimeStr |-> r[2], series |-> c, Value |-> r[3][c]]]

\* The cells of df_long['TimeStr'] that .astype(int) cannot convert.
BadCells(df_long) == {k \in 1..Len(df_long) : ~Parses(df_long[k].TimeStr)}

\* df_long['Year'] = df_long['TimeStr'].str.replace('YR', '').astype(int)
add_Year(df_long) ==
    [k \in 1..Len(df_long) |->
        [Country |-> df_long[k].Country, Year |-> int(str_replace_YR(df_long[k].TimeStr)),
         series |-> df_long[k].series, Value |-> df_long[k].Value]]

\* pivot raises when two records share (Country, Year, series).
HasDuplicateEntries(df_long) ==
    \E i, j \in 1..Len(df_long) :
        /\ i < j
        /\ df_long[i].Country = df_long[j].Country
        /\ df_long[i].Year = df_long[j].Year
        /\ df_long[i].series = df_long[j].series

IndexLess(p, q) ==
    \/ EntityRank(p[1]) < EntityRank(q[1])
    \/ EntityRank(p[1]) = EntityRank(q[1]) /\ p[2] < q[2]

\* The (Country, Year) index of the pivoted frame, sorted.
SortedIndex(keys) ==
    CHOOSE s \in [1..Cardinality(keys) -> keys] :
        \A i, j \in 1..Cardinality(keys) : i < j => IndexLess(s[i], s[j])

\* Mutant of pivot: one output row per long-form record, the records of one
\* (Country, Year) never being grouped.
pivot_per_record(df_long) ==
    LET cols == {df_long[k].series : k \in 1..Len(df_long)}
    IN  [columns |-> cols,
         rows |-> [k \in 1..Len(df_long) |->
                     [Country |-> df_long[k].Country, Year |-> df_long[k].Year,
                      vals |-> [c \in cols |->
                                  IF c = df_long[k].series THEN df_long[k].Value ELSE NaN]]]]

\* The rows of the pivoted frame: one per entry of the sorted index, holding
\* for every series the Value of the record of that entry, NaN without one.
pivot_rows(df_long, cols, idx) ==
    [i \in 1..Len(idx) |->
        [Country |-> idx[i][1], Year |-> idx[i][2],
         vals |-> [c \in cols |->
                     LET hits == {k \in 1..Len(df_long) :
                                    /\ df_long[k].Country = idx[i][1]
                                    /\ df_long[k].Year = idx[i][2]
                                    /\ df_long[k].series = c}
                     IN  IF hits = {} THEN NaN ELSE df_long[CHOOSE k \in hits : TRUE].Value]]]

\* df_long.pivot(index=['Country','Year'], columns='series',
\* values='Value').reset_index(), for a frame without duplicate entries.
pivot(df_long) ==
    LET keys == {<<df_long[k].Country, df_long[k].Year>> : k \in 1..Len(df_long)}
        cols == {df_long[k].series : k \in 1..Len(df_long)}
    IN  [columns |-> cols, rows |-> pivot_rows(df_long, cols, SortedIndex(keys))]

\* reverse_indicator_map = {v: k for k, v in indicators_dict.items()}
reverse_indicator_map(indicators_dict) ==
    [c \in {indicators_dict[n] : n \in DOMAIN indicators_dict} |->
        CHOOSE n \in DOMAIN indicators_dict : indicators_dict[n] = c]

\* Mutant of renamed: the mapping is never applied (as when rename is given
\* the name -> code dictionary, none of whose keys is a column).
renamed_unmapped(mapping, c) == c

\* The new label of one column under DataFrame.rename(columns=mapping).
renamed(mapping, c) == IF c \in DOMAIN mapping THEN mapping[c] ELSE c

\* df_final.rename(columns=reverse_indicator_map)
rename(df, mapping) ==
    LET old(c2) == CHOOSE c \in df.columns : renamed(mapping, c) = c2
    IN  [columns |-> {renamed(mapping, c) : c \in df.columns},
         rows |-> [i \in 1..Len(df.rows) |->
                     [Country |-> df.rows[i].Country, Year |-> df.rows[i].Year,
                      vals |-> [c2 \in {renamed(mapping, c) : c \in df.columns} |->
                                  df.rows[i].vals[old(c2)]]]]]

\* Mutant of sort_values_Year: the frame is returned in pivot's order.
sort_values_skipped(df) == {df}

\* df_final.sort_values('Year'): the default sort is not stable, so every
\* order of the rows that is ascending by Year is a possible outcome.
sort_values_Year(df) ==
    LET n == Len(df.rows)
        perms == {p \in [1..n -> 1..n] :
                    /\ \A i, j \in 1..n : i # j => p[i] # p[j]
                    /\ \A i, j \in 1..n : i < j => df.rows[p[i]].Year <= df.rows[p[j]].Year}
    IN  {[columns |-> df.columns, rows |-> [i \in 1..n |-> df.rows[p[i]]]] : p \in perms}

\* The message of the JSONDecodeError branch, lines 121-126.
JSONDecodeErrorText(detail) ==
    "JSONDecodeError: The World Bank API sent back a broken response. "
    \o "This can happen if the API is temporarily down or the request "
    \o "has no data. Try a different year range. "
    \o "Details: " \o detail

\* Lines 105-117 on the long frame with its Year column: pivot raises on
\* duplicate entries, else the frame is pivoted, renamed and sorted.
pivot_step(df_year, indicators_dict) ==
    IF HasDuplicateEntries(df_year)
    THEN {<<None, Str("Index contains duplicate entries, cannot reshape")>>}
    ELSE {<<df, None>> :
            df \in sort_values_Year(
                      rename(pivot(df_year), reverse_indicator_map(indicators_dict)))}

\* Lines 101-117 on the long frame: .astype(int) raises on the first cell
\* that does not convert, else the pipeline goes on with the Year column.
year_step(df_long, indicators_dict) ==
    IF BadCells(df_long) # {}
    THEN {<<None, Str(astype_int_error(
                df_long[CHOOSE k \in BadCells(df_long) :
                            \A l \in BadCells(df_long) : k <= l].TimeStr))>>}
    ELSE pivot_step(add_Year(df_long), indicators_dict)

\* Lines 82-117 on a frame: the set of (data, error) pairs the try block
\* can end with, a raised ValueError being caught at line 127.
reshape(frame, indicators_dict) == year_step(melt(frame), indicators_dict)

\* Mutant of get_data_body: a frame without rows is reported as a failure.
get_data_body_empty_fails(answer, indicators_dict) ==
    IF answer.tag = "raise"
    THEN IF answer.exc = "JSONDecodeError"
         THEN {<<None, Str(JSONDecodeErrorText(answer.msg))>>}
         ELSE {<<None, Str(answer.msg)>>}
    ELSE IF answer.rows = <<>>
         THEN {<<None, Str("No data")>>}
         ELSE reshape(answer, indicators_dict)

\* The body of get_data, lines 66-129, given what wb.data.DataFrame does.
get_data_body(answer, indicators_dict) ==
    IF answer.tag = "raise"
    THEN IF answer.exc = "JSONDecodeError"
         THEN {<<None, Str(JSONDecodeErrorText(answer.msg))>>}
         ELSE {<<None, Str(answer.msg)>>}
    ELSE reshape(answer, indicators_dict)

(* ------------------------------ the script ----------------------------- *)

\* Lines 179-182: the dictionary of the two selected indicators.
indicators_to_fetch(indicator_1_name, indicator_2_name) ==
    [n \in {indicator_1_name, indicator_2_name} |-> INDICATORS_DB[n]]

\* Lines 194-203: the branch the page takes on (data, error).
display(d, e) ==
    IF Truthy(e) THEN "error"
    ELSE IF d = None \/ Len(d.rows) = 0 THEN "warning"
    ELSE "charts"

VARIABLES
    source,     \* what wb.data.DataFrame answers at present
    cache,      \* st.cache_data memo of get_data: key -> (data, error)
    args,       \* the arguments of the last get_data call, None before it
    hit,        \* whether the last call was answered from the cache
    data,       \* line 189: data
    error,      \* line 189: error
    shown       \* the display branch taken by the last run

vars == <<source, cache, args, hit, data, error, shown>>

\* The memo key of a call: all three arguments.
Key(country_code, time_string, indicators_dict) ==
    [country_code |-> country_code, time_string |-> time_string,
     indicators_dict |-> indicators_dict]

InitRest ==
    /\ cache = <<>>
    /\ args = None
    /\ hit = FALSE
    /\ data = None
    /\ error = None
    /\ shown = "none"

Init == (IsFrame(source) \/ source \in Raises) /\ InitRest

\* One run of the script from the widget selection to the display branch:
\* lines 175-203, get_data being answered by the memo when the key is known.
Rerun(indicator_1_name, indicator_2_name) ==
    LET dict == indicators_to_fetch(indicator_1_name, indicator_2_name)
        key  == Key("IND", "2000:2001", dict)
    IN  /\ args' = key
        /\ IF key \in DOMAIN cache
           THEN /\ hit' = TRUE
                /\ data' = cache[key][1]
                /\ error' = cache[key][2]
                /\ cache' = cache
           ELSE \E r \in get_data_body(source, dict) :
                    /\ hit' = FALSE
                    /\ data' = r[1]
                    /\ error' = r[2]
                    /\ cache' = [k \in DOMAIN cache \cup {key} |->
                                    IF k = key THEN r ELSE cache[k]]
        /\ shown' = display(data', error')
        /\ UNCHANGED source

\* The first selectbox stays on its default (index 0, line 151); the second
\* takes any name, so the request is {A: a} or {A: a, B: b}.
Next == \E i2 \in indicator_names : Rerun("A", i2)

Spec == Init /\ [][Next]_vars

(* --------------- the memo over a source that changes ------------------- *)

\* The frame of the specification's example: one record of IND for 2000.
ExampleFrame ==
    [tag |-> "frame", columns |-> <<"a", "b">>,
     rows |-> << <<"IND", YR2000, [a |-> 5, b |-> 10]>> >>]

\* A frame with the two value columns and no row.
EmptyFrame == [tag |-> "frame", columns |-> <<"a", "b">>, rows |-> <<>>]

\* The source holds one table for the request and either answers it or
\* fails: identical inputs never meet two different tables.
CacheAnswers == Raises \cup {ExampleFrame}

InitCache == source \in CacheAnswers /\ InitRest

\* The external source starts to answer differently (it fails, fails in
\* another way, or recovers) between two runs of the script.
SourceChange ==
    /\ \E a \in CacheAnswers : a # source /\ source' = a
    /\ UNCHANGED <<cache, args, hit, data, error, shown>>

NextCache == (\E i2 \in indicator_names : Rerun("A", i2)) \/ SourceChange

SpecCache == InitCache /\ [][NextCache]_vars

(* ------------------------------ properties ----------------------------- *)

\* get_data has been called at least once.
called == args # None

\* The series request of the last call.
Request == args.indicators_dict

\* The year each time label denotes, written down independently of the
\* parsing of the pipeline; NaN for a label that denotes none.
YearOfLabel(t) ==
    CASE t = YR2000 -> 2000
      [] t = YR2001 -> 2001
      [] t = YR02000 -> 2000
      [] OTHER -> NaN

\* t has the form 'YR<digits>'.
IsYRDigits(t) ==
    /\ t # Missing
    /\ Len(t) >= 3
    /\ t[1] = "Y" /\ t[2] = "R"
    /\ \A i \in 3..Len(t) : t[i] \in Digits

IsRawTable == source.tag = "frame"

RawIndex == 1..Len(source.rows)

RawEntity(i) == source.rows[i][1]

RawTime(i) == source.rows[i][2]

RawYear(i) == YearOfLabel(source.rows[i][2])

RawValue(i, c) == source.rows[i][3][c]

Succeeded == error = None /\ data # None

\* The rows of the returned table that carry (entity, year).
RowsOf(entity, year) ==
    {j \in 1..Len(data.rows) : data.rows[j].Country = entity /\ data.rows[j].Year = year}

\* Raw record i is carried by a returned row, under the requested names.
Carried(i) ==
    \E j \in RowsOf(RawEntity(i), RawYear(i)) :
        \A N \in DOMAIN Request :
            Request[N] \in Range(source.columns) =>
                N \in data.columns /\ data.rows[j].vals[N] = RawValue(i, Request[N])

\* The returned table is the raw table, one row per (entity, year).
OneRowPerRecord ==
    /\ Succeeded
    /\ Len(data.rows) = Cardinality({<<RawEntity(i), RawYear(i)>> : i \in RawIndex})
    /\ \A i \in RawIndex : Carried(i)

AllYRDigits == \A i \in RawIndex : IsYRDigits(RawTime(i))

C2_EmptyIsNotAnError ==
    (called /\ IsRawTable /\ source.rows = <<>>)
    => /\ error = None
       /\ data # None
       /\ data.rows = <<>>
       /\ \A f \in Raises : <<data, error>> \notin get_data_body(f, Request)

\* A call on the frame with two value columns and no row has returned.
C2_Witness ==
    /\ called
    /\ source = EmptyFrame
    /\ Succeeded
    /\ data.rows = <<>>
    /\ shown = "warning"

\* C3 as stated: a row whose time label is missing or is not an integer
\* after the prefix is dropped, the call succeeds, and every row with a
\* label that parses is in the returned table.
C3_Original ==
    (/\ called
     /\ IsRawTable
     /\ source.columns # <<>>
     /\ \E i \in RawIndex : RawYear(i) = NaN)
    => /\ Succeeded
       /\ \A i \in RawIndex :
              RawYear(i) # NaN => RowsOf(RawEntity(i), RawYear(i)) # {}

\* C4 as stated: when an (entity, year, series) triple occurs more than once
\* the call succeeds and the table holds exactly one row for that (entity,
\* year), with the value of the first occurrence.
C4_Original ==
    (/\ called
     /\ IsRawTable
     /\ source.columns # <<>>
     /\ \A i \in RawIndex : RawYear(i) # NaN
     /\ \E i, j \in RawIndex :
            i < j /\ <<RawEntity(i), RawYear(i)>> = <<RawEntity(j), RawYear(j)>>)
    => /\ Succeeded
       /\ \A i \in RawIndex :
              (\A k \in RawIndex :
                   k < i => <<RawEntity(k), RawYear(k)>> # <<RawEntity(i), RawYear(i)>>)
              => /\ Cardinality(RowsOf(RawEntity(i), RawYear(i))) = 1
                 /\ Carried(i)

\* C5 as stated: the value columns of a returned table are all requested
\* series names; a raw code that was not requested is no column of it.
C5_Original == (called /\ data # None) => data.columns \subseteq DOMAIN Request

\* The last call ended in one of the except branches (lines 121 and 129 are
\* the only returns whose data is None).
Failed == called /\ data = None

\* The last call succeeded with a table without rows.
EmptySuccess == called /\ data # None /\ data.rows = <<>>

\* C6 as stated: a failure is never shown as 'no data' (the warning branch)
\* and an empty success is never shown as an error.
C6_Original ==
    /\ Failed => shown # "warning"
    /\ EmptySuccess => shown # "error"

\* C7 as stated: a call answered from the memo returns what a fresh
\* computation on the same arguments would return at that moment.
\* (A step that leaves source alone and ends with hit set is a run of the
\* script answered from the memo; taken here for the runs made while the
\* source answers, the case of a failure followed by an answer.)
C7_Original ==
    [][(source' = source /\ hit' /\ source'.tag = "frame")
          => <<data', error'>> \in get_data_body(source', args'.indicators_dict)]_vars

\* Every str(e) an exception of the model can carry.
Details ==
    JSONMessages \cup OtherMessages
    \cup {astype_int_error(t) : t \in TimeLabels}
    \cup {"Index contains duplicate entries, cannot reshape"}

\* The kind a returned error reads as: the text of the JSONDecodeError
\* branch, or anything else.
Kind(e) ==
    IF \E d \in Details : e = Str(JSONDecodeErrorText(d)) THEN "ParseError" ELSE "UnknownError"

\* C8 as stated: a payload or a time label that does not decode is returned
\* as (Empty, ParseError(detail)), any other failure as (Empty,
\* UnknownError(detail)), with the detail of the original failure.
C8_Original ==
    called =>
        /\ (source.tag = "raise" /\ source.exc = "JSONDecodeError")
           => data = None /\ error = Str(JSONDecodeErrorText(source.msg))
        /\ (source.tag = "raise" /\ source.exc = "Exception")
           => data = None /\ error = Str(source.msg) /\ Kind(error) = "UnknownError"
        /\ (/\ IsRawTable
            /\ source.columns # <<>>
            /\ \E i \in RawIndex : RawYear(i) = NaN)
           => data = None /\ Kind(error) = "ParseError"

\* C9: a returned table holds at most one row per (entity, year).
C9_UniqueIndex ==
    (called /\ data # None)
    => \A i, j \in 1..Len(data.rows) :
           i < j => <<data.rows[i].Country, data.rows[i].Year>>
                        # <<data.rows[j].Country, data.rows[j].Year>>

\* Two raw records of one entity with two value columns each (four long-form
\* records) have come back as two rows.
C9_Witness ==
    /\ called
    /\ Succeeded
    /\ source.columns = <<"a", "b">>
    /\ Len(source.rows) = 2
    /\ Len(data.rows) = 2
    /\ data.rows[1].Country = data.rows[2].Country

\* C10: the rows of a returned table are in ascending order of year.
C10_SortedByYear ==
    (called /\ data # None)
    => \A i \in 1..(Len(data.rows) - 1) : data.rows[i].Year <= data.rows[i + 1].Year

\* A raw table listing IND 2001 before USA 2000 has come back with the row
\* of 2000 first, against the (Country, Year) order of pivot.
C10_Witness ==
    /\ called
    /\ Succeeded
    /\ Len(source.rows) = 2
    /\ RawEntity(1) = "IND" /\ RawTime(1) = YR2001
    /\ RawEntity(2) = "USA" /\ RawTime(2) = YR2000
    /\ Len(data.rows) = 2
    /\ data.rows[1].Country = "USA" /\ data.rows[1].Year = 2000
    /\ data.rows[2].Country = "IND" /\ data.rows[2].Year = 2001

====
